---- MODULE Spec2Model ----
(***************************************************************************)
(* Suffix schemes of file-rotate: AppendCount (src/src/suffix.rs) and      *)
(* AppendTimestamp (src/src/suffix/time.rs), with the directory scan of    *)
(* the SuffixScheme trait.                                                 *)
(*                                                                         *)
(* Strings are sequences of one-character strings, compared byte-wise as   *)
(* Rust compares str.  Option<T> is <<>> (None) or <<v>> (Some(v)).        *)
(* Instants are seconds since 1970-01-01T00:00:00, the local offset is 0.  *)
(***************************************************************************)
EXTENDS Integers, Sequences, FiniteSets, TLC

VARIABLES now, ticks, format, file_limit, date_from, max_files,
          newest, newest_fresh, calls, dir, ret

vars == <<now, ticks, format, file_limit, date_from, max_files,
          newest, newest_fresh, calls, dir, ret>>

----------------------------------------------------------------------------
(* Option<T> *)

None == <<>>

Some(v) == <<v>>

IsSome(o) == o # None

Unwrap(o) == o[1]

\* Option::unwrap_or
UnwrapOr(o, default) == IF IsSome(o) THEN Unwrap(o) ELSE default

----------------------------------------------------------------------------
(* Strings *)

DigitChars == <<"0", "1", "2", "3", "4", "5", "6", "7", "8", "9">>

IsDigit(c) == \E i \in 1..10 : DigitChars[i] = c

DigitVal(c) == (CHOOSE i \in 1..10 : DigitChars[i] = c) - 1

\* The byte of each character the model's strings are built from.
Ascii ==
    [c \in {"+", "-", "."} \cup {DigitChars[i] : i \in 1..10}
           \cup {"T", "a", "b", "c", "e", "f", "g", "h", "i", "l", "o",
                 "r", "t", "z"} |->
        CASE c = "+" -> 43 [] c = "-" -> 45 [] c = "." -> 46
          [] IsDigit(c) -> 48 + DigitVal(c)
          [] c = "T" -> 84 [] c = "a" -> 97 [] c = "b" -> 98 [] c = "c" -> 99
          [] c = "e" -> 101 [] c = "f" -> 102 [] c = "g" -> 103
          [] c = "h" -> 104 [] c = "i" -> 105 [] c = "l" -> 108
          [] c = "o" -> 111 [] c = "r" -> 114 [] c = "t" -> 116
          [] c = "z" -> 122]

MinOf(S) == CHOOSE x \in S : \A y \in S : x <= y

IntCmp(a, b) == IF a < b THEN "Less" ELSE IF a = b THEN "Equal" ELSE "Greater"

\* str::cmp: lexicographic on bytes, a proper prefix is smaller.
StrCmp(a, b) ==
    LET n     == IF Len(a) < Len(b) THEN Len(a) ELSE Len(b)
        diffs == {i \in 1..n : a[i] # b[i]}
    IN  IF diffs = {} THEN IntCmp(Len(a), Len(b))
        ELSE LET i == MinOf(diffs) IN IntCmp(Ascii[a[i]], Ascii[b[i]])

\* str::starts_with
StartsWith(s, p) == Len(s) >= Len(p) /\ SubSeq(s, 1, Len(p)) = p

\* str::strip_prefix
StripPrefix(s, p) ==
    IF StartsWith(s, p) THEN Some(SubSeq(s, Len(p) + 1, Len(s))) ELSE None

\* str::strip_suffix
StripSuffix(s, x) ==
    IF Len(s) >= Len(x) /\ SubSeq(s, Len(s) - Len(x) + 1, Len(s)) = x
    THEN Some(SubSeq(s, 1, Len(s) - Len(x)))
    ELSE None

\* str::find(char): the zero-based index of the first occurrence
Find(s, c) ==
    LET hits == {i \in 1..Len(s) : s[i] = c}
    IN  IF hits = {} THEN None ELSE Some(MinOf(hits) - 1)

RECURSIVE DigitsValue(_)
DigitsValue(s) ==
    IF s = <<>> THEN 0
    ELSE 10 * DigitsValue(SubSeq(s, 1, Len(s) - 1)) + DigitVal(s[Len(s)])

\* str::parse::<usize>: an optional '+', then one or more decimal digits
ParseUsize(s) ==
    LET body == IF s # <<>> /\ s[1] = "+" THEN Tail(s) ELSE s
    IN  IF body # <<>> /\ \A i \in 1..Len(body) : IsDigit(body[i])
        THEN Some(DigitsValue(body))
        ELSE None

\* usize::to_string
RECURSIVE UsizeToString(_)
UsizeToString(n) ==
    IF n < 10 THEN <<DigitChars[n + 1]>>
    ELSE UsizeToString(n \div 10) \o <<DigitChars[(n % 10) + 1]>>

----------------------------------------------------------------------------
(* chrono: durations, the calendar, strftime formatting and parsing *)

\* Duration::hours(1), in seconds
DurationHour == 3600

\* Duration::days(1), in seconds
DurationDay == 86400

IsLeap(y) == (y % 4 = 0 /\ y % 100 # 0) \/ y % 400 = 0

DaysInMonth(y, m) ==
    IF m = 2 THEN (IF IsLeap(y) THEN 29 ELSE 28)
    ELSE IF m \in {4, 6, 9, 11} THEN 30 ELSE 31

\* The proleptic Gregorian date of day number z (days since 1970-01-01).
CivilFromDays(z) ==
    LET z1  == z + 719468
        era == z1 \div 146097
        doe == z1 - era * 146097
        yoe == (doe - doe \div 1460 + doe \div 36524 - doe \div 146096) \div 365
        doy == doe - (365 * yoe + yoe \div 4 - yoe \div 100)
        mp  == (5 * doy + 2) \div 153
        d   == doy - (153 * mp + 2) \div 5 + 1
        m   == IF mp < 10 THEN mp + 3 ELSE mp - 9
        y   == yoe + era * 400 + (IF m <= 2 THEN 1 ELSE 0)
    IN  [Y |-> y, m |-> m, d |-> d]

\* The calendar fields of instant t.
Fields(t) ==
    LET date == CivilFromDays(t \div DurationDay)
        sod  == t % DurationDay
    IN  [Y |-> date.Y, m |-> date.m, d |-> date.d,
         H |-> sod \div 3600, M |-> (sod % 3600) \div 60, S |-> sod % 60]

\* A strftime item: a zero-padded numeric field or a literal character.
Num(name, width) == [kind |-> "num", name |-> name, width |-> width]

Lit(c) == [kind |-> "lit", name |-> c, width |-> 1]

\* "%Y%m%dT%H%M%S", the format of AppendTimestamp::default
FormatDefault ==
    <<Num("Y", 4), Num("m", 2), Num("d", 2), Lit("T"),
      Num("H", 2), Num("M", 2), Num("S", 2)>>

\* "%Y-%m-%d", the second format of test::timestamp_scan_suffixes_formats
FormatDate == <<Num("Y", 4), Lit("-"), Num("m", 2), Lit("-"), Num("d", 2)>>

RECURSIVE Pad(_, _)
Pad(s, width) == IF Len(s) >= width THEN s ELSE Pad(<<"0">> \o s, width)

RECURSIVE FormatItems(_, _)
FormatItems(fields, items) ==
    IF items = <<>> THEN <<>>
    ELSE LET it == Head(items)
         IN  (IF it.kind = "lit" THEN <<it.name>>
              ELSE Pad(UsizeToString(fields[it.name]), it.width))
             \o FormatItems(fields, Tail(items))

\* DateTime::format(fmt).to_string()
FormatInstant(t, fmt) == FormatItems(Fields(t), fmt)

\* The number of leading digits of s, at most max.
RECURSIVE DigitRun(_, _)
DigitRun(s, max) ==
    IF max = 0 \/ s = <<>> \/ ~IsDigit(s[1]) THEN 0
    ELSE 1 + DigitRun(Tail(s), max - 1)

\* chrono::format::parse: consume s item by item; parsed collects the
\* <<field, value>> pairs read so far.
RECURSIVE ParseItems(_, _, _)
ParseItems(s, items, parsed) ==
    IF items = <<>>
    THEN [kind |-> IF s = <<>> THEN "Ok" ELSE "TooLong", parsed |-> parsed]
    ELSE LET it == Head(items) IN
         IF s = <<>> THEN [kind |-> "TooShort", parsed |-> parsed]
         ELSE IF it.kind = "lit"
         THEN IF s[1] = it.name
              THEN ParseItems(Tail(s), Tail(items), parsed)
              ELSE [kind |-> "Invalid", parsed |-> parsed]
         ELSE LET n == DigitRun(s, it.width) IN
              IF n = 0 THEN [kind |-> "Invalid", parsed |-> parsed]
              ELSE ParseItems(SubSeq(s, n + 1, Len(s)), Tail(items),
                              parsed \cup {<<it.name, DigitsValue(SubSeq(s, 1, n))>>})

Has(parsed, name) == \E p \in parsed : p[1] = name

Get(parsed, name) == (CHOOSE p \in parsed : p[1] = name)[2]

\* Parsed::to_naive_date
ToNaiveDate(parsed) ==
    IF ~(Has(parsed, "Y") /\ Has(parsed, "m") /\ Has(parsed, "d"))
    THEN "NotEnough"
    ELSE IF Get(parsed, "m") \in 1..12
            /\ Get(parsed, "d") \in 1..DaysInMonth(Get(parsed, "Y"), Get(parsed, "m"))
         THEN "Ok" ELSE "OutOfRange"

\* Parsed::to_naive_time: the second defaults to 0, 60 is a leap second
ToNaiveTime(parsed) ==
    IF ~(Has(parsed, "H") /\ Has(parsed, "M")) THEN "NotEnough"
    ELSE IF Get(parsed, "H") \in 0..23 /\ Get(parsed, "M") \in 0..59
            /\ (Has(parsed, "S") => Get(parsed, "S") \in 0..60)
         THEN "Ok" ELSE "OutOfRange"

\* NaiveDateTime::parse_from_str(s, fmt): "Ok" or the ParseErrorKind
ParseFromStr(s, fmt) ==
    LET r == ParseItems(s, fmt, {})
    IN  IF r.kind # "Ok" THEN r.kind
        ELSE IF ToNaiveDate(r.parsed) # "Ok" THEN ToNaiveDate(r.parsed)
        ELSE ToNaiveTime(r.parsed)

----------------------------------------------------------------------------
(* TimestampSuffix *)

TimestampSuffix(timestamp, number) ==
    [timestamp |-> timestamp, number |-> number]

\* Option<usize>::cmp: None is less than every Some
OptionCmp(a, b) ==
    IF ~IsSome(a) THEN (IF IsSome(b) THEN "Less" ELSE "Equal")
    ELSE IF ~IsSome(b) THEN "Greater"
    ELSE IntCmp(Unwrap(a), Unwrap(b))

\* TimestampSuffix_cmp with the numbers compared self-first.
TimestampSuffix_cmp_number_unreversed(self, other) ==
    LET c == StrCmp(other.timestamp, self.timestamp)
    IN  IF c = "Equal" THEN OptionCmp(self.number, other.number) ELSE c

\* impl Ord for TimestampSuffix: self.cmp(other)
TimestampSuffix_cmp(self, other) ==
    LET c == StrCmp(other.timestamp, self.timestamp)
    IN  IF c = "Equal" THEN OptionCmp(other.number, self.number) ELSE c

\* impl Display for TimestampSuffix
TimestampSuffix_fmt(self) ==
    IF IsSome(self.number)
    THEN self.timestamp \o <<".">> \o UsizeToString(Unwrap(self.number))
    ELSE self.timestamp

----------------------------------------------------------------------------
(* AppendTimestamp: self is (format, file_limit, date_from), the clock is now *)

MaxFiles(n) == [kind |-> "MaxFiles", max_files |-> n, age |-> 0]

Age(d) == [kind |-> "Age", max_files |-> 0, age |-> d]

Unlimited == [kind |-> "Unlimited", max_files |-> 0, age |-> 0]

\* The outcome of a call: a returned value, an Err value, or a panic.
Ok(v) == [outcome |-> "ok", value |-> Some(v)]

Err == [outcome |-> "err", value |-> None]

Panic == [outcome |-> "panic", value |-> None]

\* assert!(suffix.is_none()): true when the assertion passes
AssertSuffixIsNone(suffix) == ~IsSome(suffix)

\* AppendTimestamp_rotate_file with unwrap_or(1) for unwrap_or(0).
AppendTimestamp_rotate_file_unwrap_or_1(newest_suffix, suffix) ==
    IF IsSome(suffix) THEN Panic
    ELSE LET t == CASE date_from = "DateYesterday" -> now - DurationDay
                    [] date_from = "DateHourAgo" -> now - DurationHour
                    [] OTHER -> now
             fmt_now == FormatInstant(t, format)
         IN  Ok(TimestampSuffix(fmt_now,
                 IF IsSome(newest_suffix) /\ Unwrap(newest_suffix).timestamp = fmt_now
                 THEN Some(UnwrapOr(Unwrap(newest_suffix).number, 1) + 1)
                 ELSE None))

\* AppendTimestamp_rotate_file with the arms of DateYesterday and DateHourAgo
\* swapped.
AppendTimestamp_rotate_file_swapped(newest_suffix, suffix) ==
    IF IsSome(suffix) THEN Panic
    ELSE LET t == CASE date_from = "DateYesterday" -> now - DurationHour
                    [] date_from = "DateHourAgo" -> now - DurationDay
                    [] OTHER -> now
             fmt_now == FormatInstant(t, format)
         IN  Ok(TimestampSuffix(fmt_now,
                 IF IsSome(newest_suffix) /\ Unwrap(newest_suffix).timestamp = fmt_now
                 THEN Some(UnwrapOr(Unwrap(newest_suffix).number, 0) + 1)
                 ELSE None))

AppendTimestamp_rotate_file(newest_suffix, suffix) ==
    IF ~AssertSuffixIsNone(suffix) THEN Panic
    ELSE IF ~IsSome(suffix)
    THEN LET t == CASE date_from = "DateYesterday" -> now - DurationDay
                    [] date_from = "DateHourAgo" -> now - DurationHour
                    [] OTHER -> now
             fmt_now == FormatInstant(t, format)
             number ==
                 IF IsSome(newest_suffix)
                 THEN IF Unwrap(newest_suffix).timestamp = fmt_now
                      THEN Some(UnwrapOr(Unwrap(newest_suffix).number, 0) + 1)
                      ELSE None
                 ELSE None
         IN  Ok(TimestampSuffix(fmt_now, number))
    ELSE Err

\* AppendTimestamp_parse with the number sliced from the dot, not after it.
AppendTimestamp_parse_from_dot(suffix) ==
    LET dot == Find(suffix, ".")
        n   == IF IsSome(dot)
               THEN ParseUsize(SubSeq(suffix, Unwrap(dot) + 1, Len(suffix)))
               ELSE None
        timestamp_str ==
               IF IsSome(dot) THEN SubSeq(suffix, 1, Unwrap(dot)) ELSE suffix
        kind == ParseFromStr(timestamp_str, format)
    IN  IF IsSome(dot) /\ ~IsSome(n) THEN None
        ELSE IF kind = "Ok" \/ kind = "NotEnough"
        THEN Some(TimestampSuffix(timestamp_str, n))
        ELSE None

AppendTimestamp_parse(suffix) ==
    LET dot == Find(suffix, ".")
        n   == IF IsSome(dot)
               THEN ParseUsize(SubSeq(suffix, Unwrap(dot) + 2, Len(suffix)))
               ELSE None
        timestamp_str ==
               IF IsSome(dot) THEN SubSeq(suffix, 1, Unwrap(dot)) ELSE suffix
        kind == ParseFromStr(timestamp_str, format)
    IN  IF IsSome(dot) /\ ~IsSome(n) THEN None
        ELSE IF kind = "Ok" \/ kind = "NotEnough"
        THEN Some(TimestampSuffix(timestamp_str, n))
        ELSE None

\* AppendTimestamp_too_old with > for >= in the count comparison.
AppendTimestamp_too_old_gt(suffix, file_number) ==
    CASE file_limit.kind = "MaxFiles" -> file_number > file_limit.max_files
      [] file_limit.kind = "Age" ->
            StrCmp(suffix.timestamp,
                   FormatInstant(now - file_limit.age, format)) = "Less"
      [] OTHER -> FALSE

\* AppendTimestamp_too_old with <= for < in the age comparison.
AppendTimestamp_too_old_le(suffix, file_number) ==
    CASE file_limit.kind = "MaxFiles" -> file_number >= file_limit.max_files
      [] file_limit.kind = "Age" ->
            StrCmp(suffix.timestamp,
                   FormatInstant(now - file_limit.age, format)) # "Greater"
      [] OTHER -> FALSE

AppendTimestamp_too_old(suffix, file_number) ==
    CASE file_limit.kind = "MaxFiles" -> file_number >= file_limit.max_files
      [] file_limit.kind = "Age" ->
            LET old_timestamp == FormatInstant(now - file_limit.age, format)
            IN  StrCmp(suffix.timestamp, old_timestamp) = "Less"
      [] OTHER -> FALSE

----------------------------------------------------------------------------
(* AppendCount: self is max_files *)

\* AppendCount_rotate_file numbering the live file's first rotation 0.
AppendCount_rotate_file_from_0(newest_suffix, suffix) ==
    Ok(IF IsSome(suffix) THEN Unwrap(suffix) + 1 ELSE 0)

AppendCount_rotate_file(newest_suffix, suffix) ==
    Ok(IF IsSome(suffix) THEN Unwrap(suffix) + 1 ELSE 1)

AppendCount_parse(suffix) == ParseUsize(suffix)

\* AppendCount_too_old with > for >=.
AppendCount_too_old_gt(suffix, file_number) == file_number > max_files

AppendCount_too_old(suffix, file_number) == file_number >= max_files

----------------------------------------------------------------------------
(* Bounds and input pools *)

\* The clock at the start: 2024-01-09T23:59:59
StartNow == 1704844799

MaxTicks == 2

\* The largest disambiguating number a rotation may return in the model.
MaxNumber == 3

\* The largest recency rank passed to too_old.
MaxRank == 1

MaxMaxFiles == 2

Steps == {1, DurationDay}

Formats == {FormatDefault, FormatDate}

DateFroms == {"Now", "DateHourAgo", "DateYesterday"}

Ages == {0, DurationHour, DurationDay, 7 * DurationDay}

\* How far back of the clock the suffixes handed to too_old lie.
Backs == {0, DurationDay, 5 * DurationDay, 7 * DurationDay, 9 * DurationDay}

\* The call record: the operation, its arguments, its result, the clock.
Call(op, args, result) == [op |-> op, args |-> args, result |-> result, at |-> now]

NoCall == [op |-> "none", args |-> <<>>, result |-> None, at |-> 0]

\* The instant rotate_file formats: now, moved back as date_from asks.
DateFromOffset ==
    CASE date_from = "DateYesterday" -> DurationDay
      [] date_from = "DateHourAgo" -> DurationHour
      [] OTHER -> 0

----------------------------------------------------------------------------
(* Spec: an AppendTimestamp scheme and its caller, under a running clock *)

Init ==
    /\ now = StartNow
    /\ ticks = 0
    /\ format \in Formats
    /\ file_limit \in {Age(d) : d \in Ages} \cup {MaxFiles(1), Unlimited}
    /\ date_from \in DateFroms
    /\ max_files = 0
    /\ newest = None
    /\ newest_fresh = FALSE
    /\ calls = 0
    /\ dir = {}
    /\ ret = NoCall

\* The caller is between two calls.
Idle == ret = NoCall

\* Time passes between two calls.
Tick(step) ==
    /\ Idle
    /\ ticks < MaxTicks
    /\ now' = now + step
    /\ ticks' = ticks + 1
    /\ newest_fresh' = FALSE
    /\ UNCHANGED <<format, file_limit, date_from, max_files, newest, calls, dir,
                   ret>>

\* The caller takes the result of its call.
Return ==
    /\ ~Idle
    /\ ret' = NoCall
    /\ UNCHANGED <<now, ticks, format, file_limit, date_from, max_files, newest,
                   newest_fresh, calls, dir>>

\* The caller rotates the live file: rotate_file(basepath, newest, &None).
\* newest becomes the returned suffix, fresh until the clock moves or a scan
\* replaces it; calls counts the calls of the chain
\* that started when newest held no suffix of the fresh tick (0: no chain).
RotateLive ==
    LET r == AppendTimestamp_rotate_file(newest, None)
        t == FormatInstant(now - DateFromOffset, format)
    IN  /\ Idle
        /\ r.outcome = "ok"
        /\ UnwrapOr(Unwrap(r.value).number, 0) <= MaxNumber
        /\ ret' = Call("rotate_file", <<newest, None>>, r)
        /\ newest' = r.value
        /\ newest_fresh' = TRUE
        /\ calls' = IF ~IsSome(newest) \/ Unwrap(newest).timestamp # t THEN 1
                    ELSE IF calls > 0 THEN calls + 1 ELSE 0
        /\ UNCHANGED <<now, ticks, format, file_limit, date_from, max_files, dir>>

\* The suffixes a caller may hold from a scan of the directory.
ScannedPool ==
    {TimestampSuffix(FormatInstant(now - DateFromOffset, format), n) :
        n \in {None, Some(2)}}
    \cup {TimestampSuffix(FormatInstant(now - DateFromOffset - DurationDay, format), None)}

\* The caller takes its newest suffix from a scan instead.
ScanNewest(s) ==
    /\ Idle
    /\ newest' = s
    /\ newest_fresh' = FALSE
    /\ calls' = 0
    /\ UNCHANGED <<now, ticks, format, file_limit, date_from, max_files, dir, ret>>

\* The caller asks to displace an already-rotated file:
\* rotate_file(basepath, newest, &Some(v)).
RotateRotated(v) ==
    /\ Idle
    /\ ret' = Call("rotate_file", <<newest, Some(v)>>,
                   AppendTimestamp_rotate_file(newest, Some(v)))
    /\ UNCHANGED <<now, ticks, format, file_limit, date_from, max_files, newest,
                   newest_fresh, calls, dir>>

TooOldPool ==
    {TimestampSuffix(FormatInstant(now - b, format), None) : b \in Backs}
    \cup {TimestampSuffix(FormatInstant(now - 7 * DurationDay, format), Some(1))}
    \cup {Unwrap(newest) : x \in {y \in {0} : IsSome(newest)}}

\* The caller judges a rotated file: too_old(&s, n).  The third argument
\* of the record tells whether s is what rotate_file returned at this instant.
TooOldTimestamp(s, n) ==
    /\ Idle
    /\ ret' = Call("too_old",
                   <<s, n, newest = Some(s) /\ newest_fresh>>,
                   AppendTimestamp_too_old(s, n))
    /\ UNCHANGED <<now, ticks, format, file_limit, date_from, max_files, newest,
                   newest_fresh, calls, dir>>

Next ==
    \/ \E step \in Steps : Tick(step)
    \/ RotateLive
    \/ \E s \in {None} \cup {Some(x) : x \in ScannedPool} : ScanNewest(s)
    \/ \E v \in ScannedPool : RotateRotated(v)
    \/ \E s \in TooOldPool, n \in 0..MaxRank : TooOldTimestamp(s, n)
    \/ Return

Spec == Init /\ [][Next]_vars

----------------------------------------------------------------------------
(* Claims checked under Spec *)

\* The suffix of the last call's Ok result.
Returned == Unwrap(ret.result.value)

\* C1: AppendTimestamp::rotate_file called with suffix = Some(v) returns an
\* error value to the caller: it neither returns a suffix nor panics.
C1_DisplacingReturnsError ==
    (ret.op = "rotate_file" /\ IsSome(ret.args[2])) => ret.result.outcome = "err"

\* C2: in a chain of rotate_file calls on the live file within one formatted
\* tick t, each fed the suffix the previous one returned and the first seeing
\* no suffix of tick t, the first call returns {t, None} and the k-th {t, k-1};
\* and the number is None whenever newest_suffix is absent or of another tick.
C2_SameTickNumbering ==
    (ret.op = "rotate_file" /\ ~IsSome(ret.args[2])) =>
        LET t == FormatInstant(ret.at - DateFromOffset, format)
            newest_suffix == ret.args[1]
        IN  /\ ret.result.outcome = "ok"
            /\ Returned.timestamp = t
            /\ (~IsSome(newest_suffix) \/ Unwrap(newest_suffix).timestamp # t)
                   => Returned.number = None
            /\ calls = 1 => Returned.number = None
            /\ calls >= 2 => Returned.number = Some(calls - 1)

C2_Witness ==
    /\ ret.op = "rotate_file"
    /\ calls = 3
    /\ ret.result.outcome = "ok"
    /\ Returned.number = Some(2)

Date_2024_01_01 == <<"2", "0", "2", "4", "-", "0", "1", "-", "0", "1">>

Date_2024_01_05 == <<"2", "0", "2", "4", "-", "0", "1", "-", "0", "5">>

\* The last call ran on 2024-01-10 under format %Y-%m-%d and Age(7 days).
OnExampleDay ==
    /\ format = FormatDate
    /\ file_limit = Age(7 * DurationDay)
    /\ CivilFromDays(ret.at \div DurationDay) = [Y |-> 2024, m |-> 1, d |-> 10]

\* C6: under FileLimit::Age(d), too_old(suffix, file_number) is true exactly
\* when suffix.timestamp sorts strictly before the formatted (now - d); a
\* timestamp equal to the cutoff is not too old; on 2024-01-10 with %Y-%m-%d
\* and d = 7 days, 2024-01-01 is too old and 2024-01-05 is not.
C6_AgeTooOld ==
    (ret.op = "too_old" /\ file_limit.kind = "Age") =>
        LET timestamp == ret.args[1].timestamp
            cutoff    == FormatInstant(ret.at - file_limit.age, format)
        IN  /\ ret.result = (StrCmp(timestamp, cutoff) = "Less")
            /\ timestamp = cutoff => ~ret.result
            /\ (OnExampleDay /\ timestamp = Date_2024_01_01) => ret.result
            /\ (OnExampleDay /\ timestamp = Date_2024_01_05) => ~ret.result

C6_Witness ==
    /\ ret.op = "too_old"
    /\ OnExampleDay
    /\ ret.args[1].timestamp = Date_2024_01_01
    /\ ret.result

\* The last call judged, at the instant of its rotation, the suffix that
\* rotate_file returned for the live file.
JudgedAtRotation == ret.op = "too_old" /\ file_limit.kind = "Age" /\ ret.args[3]

\* C10 as stated: under Age(d), d >= 0, and every DateFrom, the suffix
\* rotate_file returns at instant T is not too_old at T.
C10_FreshNeverTooOld == JudgedAtRotation => ~ret.result

\* C10 amended: the same, provided d is at least the DateFrom offset
\* (0 for Now, one hour for DateHourAgo, one day for DateYesterday).
C10_FreshNotTooOldWhenAgeCoversOffset ==
    (JudgedAtRotation /\ file_limit.age >= DateFromOffset) => ~ret.result

C10_Witness ==
    /\ JudgedAtRotation
    /\ date_from = "DateYesterday"
    /\ file_limit.age = DurationDay
    /\ ~ret.result

----------------------------------------------------------------------------
(* String literals *)

\* "2020"
S2020 == <<"2", "0", "2", "0">>

\* "2021"
S2021 == <<"2", "0", "2", "1">>

\* "20210"
S20210 == <<"2", "0", "2", "1", "0">>

\* "20220201T101010"
T_OK1 == <<"2", "0", "2", "2", "0", "2", "0", "1", "T", "1", "0", "1", "0", "1", "0">>

\* "20220202T101010"
T_OK2 == <<"2", "0", "2", "2", "0", "2", "0", "2", "T", "1", "0", "1", "0", "1", "0">>

\* "20220201T1010"
T_BAD1 == <<"2", "0", "2", "2", "0", "2", "0", "1", "T", "1", "0", "1", "0">>

\* "20220201T999999"
T_BAD2 == <<"2", "0", "2", "2", "0", "2", "0", "1", "T", "9", "9", "9", "9", "9", "9">>

\* "2022-02-01"
D_OK1 == <<"2", "0", "2", "2", "-", "0", "2", "-", "0", "1">>

\* "2022-02-02"
D_OK2 == <<"2", "0", "2", "2", "-", "0", "2", "-", "0", "2">>

\* "abc"
D_BAD1 == <<"a", "b", "c">>

\* "2022-99-99"
D_BAD2 == <<"2", "0", "2", "2", "-", "9", "9", "-", "9", "9">>

\* "2022-05"
D_BAD3 == <<"2", "0", "2", "2", "-", "0", "5">>

\* "2022"
D_BAD4 == <<"2", "0", "2", "2">>

\* "20220202"
D_BAD5 == <<"2", "0", "2", "2", "0", "2", "0", "2">>

\* "2022-02-02T112233"
D_BAD6 == <<"2", "0", "2", "2", "-", "0", "2", "-", "0", "2", "T", "1", "1", "2", "2", "3", "3">>

\* ""
X_EMPTY == <<>>

\* "1"
X_1 == <<"1">>

\* "01"
X_01 == <<"0", "1">>

\* "+1"
X_PLUS1 == <<"+", "1">>

\* "1gz"
X_1GZ == <<"1", "g", "z">>

\* "."
X_DOT == <<".">>

\* "file"
FILE == <<"f", "i", "l", "e">>

\* ".gz"
GZ == <<".", "g", "z">>

\* "file.1"
N_FILE_1 == <<"f", "i", "l", "e", ".", "1">>

\* "file.2.gz"
N_FILE_2_GZ == <<"f", "i", "l", "e", ".", "2", ".", "g", "z">>

\* "otherfile.1"
N_OTHERFILE_1 == <<"o", "t", "h", "e", "r", "f", "i", "l", "e", ".", "1">>

\* "file.01"
N_FILE_01 == <<"f", "i", "l", "e", ".", "0", "1">>

\* "file.1.gz"
N_FILE_1_GZ == <<"f", "i", "l", "e", ".", "1", ".", "g", "z">>

\* "file.x"
N_FILE_X == <<"f", "i", "l", "e", ".", "x">>

\* "file2.1"
N_FILE2_1 == <<"f", "i", "l", "e", "2", ".", "1">>

\* "file.3"
N_FILE_3 == <<"f", "i", "l", "e", ".", "3">>

\* "file.2022-02-01"
N_FILE_D1 == <<"f", "i", "l", "e", ".", "2", "0", "2", "2", "-", "0", "2", "-", "0", "1">>

\* "file.2022-02-02.gz"
N_FILE_D2_GZ == <<"f", "i", "l", "e", ".", "2", "0", "2", "2", "-", "0", "2", "-", "0", "2", ".", "g", "z">>

\* "file.2022-02-01.1"
N_FILE_D1_1 == <<"f", "i", "l", "e", ".", "2", "0", "2", "2", "-", "0", "2", "-", "0", "1", ".", "1">>

\* "file.2022-99-99"
N_FILE_DBAD == <<"f", "i", "l", "e", ".", "2", "0", "2", "2", "-", "9", "9", "-", "9", "9">>

\* "file.20220201T101010"
N_FILE_T1 == <<"f", "i", "l", "e", ".", "2", "0", "2", "2", "0", "2", "0", "1", "T", "1", "0", "1", "0", "1", "0">>

----------------------------------------------------------------------------
(* SpecPure: the pure operations of both schemes applied to drawn inputs *)

\* The suffixes compared: the timestamps of test::timestamp_ordering and a
\* longer one, bare and numbered.
ComparedPool ==
    {TimestampSuffix(t, n) :
        t \in {S2020, S2021, S20210},
        n \in {None, Some(1), Some(2)}}

\* The instants whose suffixes are written and parsed back: the epoch, the
\* start of the clock, the second after, and 2024-02-29T12:34:56.
RoundTripInstants == {0, StartNow, StartNow + 1, 1709210096}

RoundTripNumbers == (0..MaxNumber) \cup {10, 123}

\* test::timestamp_scan_suffixes_formats: suffixes, incorrect_suffixes
TestSuffixes(fmt) ==
    IF fmt = FormatDefault THEN {T_OK1, T_OK2} ELSE {D_OK1, D_OK2}

TestIncorrectSuffixes(fmt) ==
    IF fmt = FormatDefault THEN {T_BAD1, T_BAD2, D_OK2}
    ELSE {D_BAD1, D_BAD2, D_BAD3, D_BAD4, D_BAD5, D_BAD6}

\* Fragments of file names handed to parse.
ParseInputs ==
    {T_OK1, T_OK2, T_BAD1, T_BAD2, D_OK1, D_OK2, D_BAD1, D_BAD2, D_BAD3,
     D_BAD4, D_BAD5, D_BAD6, X_EMPTY, X_1, X_01, X_PLUS1, X_1GZ,
     D_OK1 \o X_DOT, D_OK1 \o X_DOT \o X_1, D_OK1 \o X_DOT \o D_BAD1,
     D_OK1 \o X_DOT \o X_1 \o X_DOT \o X_1, T_OK1 \o X_DOT \o X_01}

InitPure ==
    /\ now = StartNow
    /\ ticks = 0
    /\ format \in Formats
    /\ file_limit \in {MaxFiles(m) : m \in 0..MaxMaxFiles} \cup {Unlimited}
    /\ date_from = "Now"
    /\ max_files \in 0..MaxMaxFiles
    /\ newest = None
    /\ newest_fresh = FALSE
    /\ calls = 0
    /\ dir = {}
    /\ ret = NoCall

Unchanged == UNCHANGED <<now, ticks, format, file_limit, date_from, max_files,
                         newest, newest_fresh, calls, dir>>

\* a.cmp(&b), b.cmp(&a), b.cmp(&c), a.cmp(&c)
Compare(a, b, c) ==
    /\ Idle
    /\ ret' = Call("cmp", <<a, b, c>>,
                   <<TimestampSuffix_cmp(a, b), TimestampSuffix_cmp(b, a),
                     TimestampSuffix_cmp(b, c), TimestampSuffix_cmp(a, c)>>)
    /\ Unchanged

\* AppendCount::too_old(&s, n)
TooOldCount(s, n) ==
    /\ Idle
    /\ ret' = Call("count_too_old", <<s, n>>, AppendCount_too_old(s, n))
    /\ Unchanged

\* parse(&s.to_string()) of a suffix AppendTimestamp produces
RoundTripTimestamp(s) ==
    /\ Idle
    /\ ret' = Call("round_trip", <<s>>, AppendTimestamp_parse(TimestampSuffix_fmt(s)))
    /\ Unchanged

\* parse(&n.to_string()) of a suffix AppendCount produces
RoundTripCount(n) ==
    /\ Idle
    /\ ret' = Call("count_round_trip", <<n>>, AppendCount_parse(UsizeToString(n)))
    /\ Unchanged

\* AppendTimestamp::parse(x)
ParseTimestamp(x) ==
    /\ Idle
    /\ ret' = Call("parse", <<x>>, AppendTimestamp_parse(x))
    /\ Unchanged

\* AppendCount::parse(x)
ParseCount(x) ==
    /\ Idle
    /\ ret' = Call("count_parse", <<x>>, AppendCount_parse(x))
    /\ Unchanged

NextPure ==
    \/ \E a \in ComparedPool, b \in ComparedPool, c \in ComparedPool : Compare(a, b, c)
    \/ \E s \in 0..MaxNumber, n \in 0..(MaxMaxFiles + 1) : TooOldCount(s, n)
    \/ \E s \in TooOldPool, n \in 0..(MaxMaxFiles + 1) : TooOldTimestamp(s, n)
    \/ \E t \in RoundTripInstants, n \in {None} \cup {Some(k) : k \in RoundTripNumbers} :
          RoundTripTimestamp(TimestampSuffix(FormatInstant(t, format), n))
    \/ \E n \in RoundTripNumbers : RoundTripCount(n)
    \/ \E x \in ParseInputs : ParseTimestamp(x)
    \/ \E x \in ParseInputs : ParseCount(x)
    \/ Return

SpecPure == InitPure /\ [][NextPure]_vars

----------------------------------------------------------------------------
(* Claims checked under SpecPure *)

\* C5: under count-based retention (AppendCount with max_files = m, or
\* AppendTimestamp with FileLimit::MaxFiles(m)), too_old(suffix, file_number)
\* is true exactly when file_number >= m, whatever the suffix.
C5_CountTooOld ==
    /\ ret.op = "count_too_old" => ret.result = (ret.args[2] >= max_files)
    /\ (ret.op = "too_old" /\ file_limit.kind = "MaxFiles")
           => ret.result = (ret.args[2] >= file_limit.max_files)

C5_Witness ==
    /\ ret.op = "too_old"
    /\ file_limit = MaxFiles(2)
    /\ ret.args[2] = 2
    /\ ret.result

\* a sorts before b by the rule of the claim.
SortsBefore(a, b) ==
    \/ StrCmp(a.timestamp, b.timestamp) = "Greater"
    \/ /\ a.timestamp = b.timestamp
       /\ \/ IsSome(a.number) /\ ~IsSome(b.number)
          \/ IsSome(a.number) /\ IsSome(b.number)
                /\ Unwrap(a.number) > Unwrap(b.number)

\* C7: the ordering of TimestampSuffix is a total order in which a < b when
\* a.timestamp is lexically greater, or the timestamps are equal and a has a
\* number and b none, or both have numbers and a's is greater; a and b
\* compare equal exactly when they are equal values.
C7_TotalOrder ==
    ret.op = "cmp" =>
        LET a == ret.args[1]
            b == ret.args[2]
            ab == ret.result[1]
            ba == ret.result[2]
            bc == ret.result[3]
            ac == ret.result[4]
        IN  /\ (ab = "Less") = SortsBefore(a, b)
            /\ (ab = "Equal") = (a = b)
            /\ (ab = "Greater") = SortsBefore(b, a)
            /\ (ab = "Less") = (ba = "Greater")
            /\ (ab = "Less" /\ bc = "Less") => ac = "Less"
            /\ (ab = "Equal" /\ bc = "Equal") => ac = "Equal"

\* The second assertion of test::timestamp_ordering.
C7_Witness ==
    /\ ret.op = "cmp"
    /\ ret.args[1] = TimestampSuffix(S2021, Some(1))
    /\ ret.args[2] = TimestampSuffix(S2021, None)
    /\ ret.result[1] = "Less"

\* C8: parse(s.to_string()) = Some(s) for every suffix a scheme produces
\* (AppendCount: a number; AppendTimestamp: a timestamp of a dot-free format,
\* bare or numbered), and parse returns None on what it does not recognise.
C8_RoundTrip ==
    /\ ret.op = "round_trip" => ret.result = Some(ret.args[1])
    /\ ret.op = "count_round_trip" => ret.result = Some(ret.args[1])
    /\ ret.op = "parse" =>
          /\ ret.args[1] \in TestSuffixes(format)
                => ret.result = Some(TimestampSuffix(ret.args[1], None))
          /\ ret.args[1] \in TestIncorrectSuffixes(format) => ret.result = None
          /\ IsSome(ret.result)
                => ParseFromStr(Unwrap(ret.result).timestamp, format)
                       \in {"Ok", "NotEnough"}
    /\ ret.op = "count_parse" =>
          (IsSome(ret.result) =>
              \A i \in 1..Len(ret.args[1]) :
                  IsDigit(ret.args[1][i]) \/ (i = 1 /\ ret.args[1][i] = "+"))

C8_Witness ==
    /\ ret.op = "round_trip"
    /\ format = FormatDefault
    /\ ret.args[1].number = Some(123)
    /\ ret.result = Some(ret.args[1])

----------------------------------------------------------------------------
(* SuffixScheme: the scheme-generic part.  scheme is "count" (AppendCount,  *)
(* Repr = usize) or "timestamp" (AppendTimestamp, Repr = TimestampSuffix).  *)

\* self.parse(s)
Parse(scheme, s) ==
    IF scheme = "count" THEN AppendCount_parse(s) ELSE AppendTimestamp_parse(s)

\* Repr::to_string
Repr_to_string(scheme, suffix) ==
    IF scheme = "count" THEN UsizeToString(suffix) ELSE TimestampSuffix_fmt(suffix)

\* Repr::cmp
Repr_cmp(scheme, a, b) ==
    IF scheme = "count" THEN IntCmp(a, b) ELSE TimestampSuffix_cmp(a, b)

\* Representation::to_path
to_path(scheme, suffix, basepath) == basepath \o <<".">> \o Repr_to_string(scheme, suffix)

\* The file name of the base path: basepath.file_name()
filename_prefix == FILE

SuffixInfo(suffix, compressed) == [suffix |-> suffix, compressed |-> compressed]

\* impl Ord for SuffixInfo: by the suffix alone
SuffixInfo_cmp(scheme, a, b) == Repr_cmp(scheme, a.suffix, b.suffix)

\* prepare_filename with the marker left in place.
prepare_filename_keep(path) == <<path, FALSE>>

prepare_filename(path) ==
    LET x == StripSuffix(path, GZ)
    IN  IF IsSome(x) THEN <<Unwrap(x), TRUE>> ELSE <<path, FALSE>>

\* BTreeSet::insert on the set kept as its ascending sequence: an element
\* that compares Equal to one already there is not inserted.
BTreeSetInsert(scheme, set, info) ==
    IF \E i \in 1..Len(set) : SuffixInfo_cmp(scheme, set[i], info) = "Equal"
    THEN set
    ELSE LET k == Cardinality({i \in 1..Len(set) :
                                  SuffixInfo_cmp(scheme, set[i], info) = "Less"})
         IN  SubSeq(set, 1, k) \o <<info>> \o SubSeq(set, k + 1, Len(set))

\* The body of the loop of scan_suffixes for one directory entry.
ScanEntry(scheme, suffixes, entry) ==
    IF ~entry.is_file THEN suffixes
    ELSE IF ~StartsWith(entry.name, filename_prefix) THEN suffixes
    ELSE LET prepared   == prepare_filename(entry.name)
             suffix_str == StripPrefix(prepared[1], filename_prefix \o <<".">>)
             suffix     == IF IsSome(suffix_str)
                           THEN Parse(scheme, Unwrap(suffix_str)) ELSE None
         IN  IF IsSome(suffix)
             THEN BTreeSetInsert(scheme, suffixes,
                                 SuffixInfo(Unwrap(suffix), prepared[2]))
             ELSE suffixes

\* scan_suffixes over the entries of the parent directory, in the order
\* read_dir yields them.
RECURSIVE ScanLoop(_, _, _)
ScanLoop(scheme, suffixes, entries) ==
    IF entries = <<>> THEN suffixes
    ELSE ScanLoop(scheme, ScanEntry(scheme, suffixes, Head(entries)), Tail(entries))

scan_suffixes(scheme, entries) == ScanLoop(scheme, <<>>, entries)

\* The orders in which read_dir may yield the entries of directory d.
RECURSIVE ReadDir(_)
ReadDir(d) ==
    IF d = {} THEN {<<>>}
    ELSE UNION {{<<e>> \o rest : rest \in ReadDir(d \ {e})} : e \in d}

----------------------------------------------------------------------------
(* SpecScan: a directory filled by others, scanned under both schemes *)

MaxEntries == 4

File(name) == [name |-> name, is_file |-> TRUE]

Directory(name) == [name |-> name, is_file |-> FALSE]

\* What may appear in the parent directory of the base path "file".
EntryPool ==
    {File(FILE), File(N_FILE_1), File(N_FILE_2_GZ), File(N_OTHERFILE_1),
     File(N_FILE_01), File(N_FILE_1_GZ), File(N_FILE_X), File(N_FILE2_1),
     Directory(N_FILE_3), File(N_FILE_D1), File(N_FILE_D2_GZ), File(N_FILE_D1_1),
     File(N_FILE_DBAD), File(N_FILE_T1)}

InitScan ==
    /\ now = StartNow
    /\ ticks = 0
    /\ format \in Formats
    /\ file_limit = Unlimited
    /\ date_from = "Now"
    /\ max_files = 0
    /\ newest = None
    /\ newest_fresh = FALSE
    /\ calls = 0
    /\ dir = {}
    /\ ret = NoCall

\* Some process creates a file or a directory beside the log file.
CreateEntry(e) ==
    /\ Idle
    /\ Cardinality(dir) < MaxEntries
    /\ e \notin dir
    /\ dir' = dir \cup {e}
    /\ UNCHANGED <<now, ticks, format, file_limit, date_from, max_files, newest,
                   newest_fresh, calls, ret>>

\* scheme.scan_suffixes(basepath)
Scan(scheme) ==
    /\ Idle
    /\ \E entries \in ReadDir(dir) :
          ret' = Call("scan", <<scheme>>, scan_suffixes(scheme, entries))
    /\ Unchanged

NextScan ==
    \/ \E e \in EntryPool : CreateEntry(e)
    \/ \E scheme \in {"count", "timestamp"} : Scan(scheme)
    \/ Return

SpecScan == InitScan /\ [][NextScan]_vars

----------------------------------------------------------------------------
(* Claims checked under SpecScan *)

\* The suffix text x of a name <base>.<x> (plain) or <base>.<x>.gz.
PlainRemainder(name) == StripPrefix(name, FILE \o <<".">>)

GzRemainder(name) ==
    IF IsSome(StripSuffix(name, GZ))
    THEN StripPrefix(Unwrap(StripSuffix(name, GZ)), FILE \o <<".">>)
    ELSE None

Recognised(scheme, x) == IsSome(x) /\ IsSome(Parse(scheme, Unwrap(x)))

\* The entries the claim expects of directory d: one for each regular file
\* named <base>.<x> or <base>.<x>.gz whose x parses.
Expected(scheme, d) ==
    {[file |-> e.name,
      info |-> IF Recognised(scheme, GzRemainder(e.name))
               THEN SuffixInfo(Unwrap(Parse(scheme, Unwrap(GzRemainder(e.name)))), TRUE)
               ELSE SuffixInfo(Unwrap(Parse(scheme, Unwrap(PlainRemainder(e.name)))), FALSE)] :
        e \in {f \in d : /\ f.is_file
                         /\ \/ Recognised(scheme, GzRemainder(f.name))
                            \/ Recognised(scheme, PlainRemainder(f.name))}}

\* Most recent first: each entry sorts strictly before the next.
Ascending(scheme, set) ==
    \A i \in 1..(Len(set) - 1) : Repr_cmp(scheme, set[i].suffix, set[i + 1].suffix) = "Less"

ExampleDir == {File(FILE), File(N_FILE_1), File(N_FILE_2_GZ), File(N_OTHERFILE_1)}

ExampleScan == <<SuffixInfo(1, FALSE), SuffixInfo(2, TRUE)>>

\* C9 as stated: scan_suffixes returns, most recent first, exactly one entry
\* {suffix, compressed} for each regular file named <base>.<x> or
\* <base>.<x>.gz whose x parses, compressed exactly for the .gz form.
C9_OneEntryPerFile ==
    ret.op = "scan" =>
        LET scheme == ret.args[1]
            want   == Expected(scheme, dir)
        IN  /\ Ascending(scheme, ret.result)
            /\ Len(ret.result) = Cardinality(want)
            /\ \A w \in want : \E i \in 1..Len(ret.result) : ret.result[i] = w.info
            /\ \A i \in 1..Len(ret.result) : \E w \in want : ret.result[i] = w.info

\* C9 amended: scan_suffixes returns, most recent first, exactly one entry for
\* each distinct suffix parsed from those files; an entry's compressed flag
\* is that of one of the files of its suffix, so it is true exactly for the
\* .gz form when one file yields the suffix.
C9_OneEntryPerSuffix ==
    ret.op = "scan" =>
        LET scheme == ret.args[1]
            want   == Expected(scheme, dir)
        IN  /\ Ascending(scheme, ret.result)
            /\ {ret.result[i].suffix : i \in 1..Len(ret.result)}
                   = {w.info.suffix : w \in want}
            /\ \A i \in 1..Len(ret.result) : \E w \in want : ret.result[i] = w.info
            /\ (dir = ExampleDir /\ scheme = "count") => ret.result = ExampleScan

C9_Witness ==
    /\ ret.op = "scan"
    /\ ret.args[1] = "count"
    /\ dir = ExampleDir
    /\ ret.result = ExampleScan

----------------------------------------------------------------------------
(* SpecRotate: the rotating writer over an AppendCount scheme.  The writer  *)
(* follows the cascading rule of rotate_file and the pruning rule of        *)
(* too_old; a collaborator may compress rotated files.                      *)

\* SuffixInfo::to_path: the path of the suffix, with the marker if compressed
SuffixInfo_to_path(scheme, info, basepath) ==
    to_path(scheme, info.suffix, basepath) \o (IF info.compressed THEN GZ ELSE <<>>)

\* The renames of one rotation in the order they are carried out: the file at
\* old (None: the live file) moves to the suffix rotate_file returns, after the
\* file that holds that suffix, if any, has been moved out of the way.
RECURSIVE move_file_with_suffix(_, _)
move_file_with_suffix(old, suffixes) ==
    LET newest_suffix == IF suffixes = <<>> THEN None ELSE Some(suffixes[1].suffix)
        old_suffix    == IF IsSome(old) THEN Some(Unwrap(old).suffix) ELSE None
        new_suffix    == Unwrap(AppendCount_rotate_file(newest_suffix, old_suffix).value)
        compressed    == IF IsSome(old) THEN Unwrap(old).compressed ELSE FALSE
        existing      == {i \in 1..Len(suffixes) : suffixes[i].suffix = new_suffix}
        move          == [from |-> old, to |-> SuffixInfo(new_suffix, compressed)]
    IN  IF existing # {}
        THEN move_file_with_suffix(Some(suffixes[MinOf(existing)]), suffixes) \o <<move>>
        ELSE <<move>>

\* The path a move takes its file from.
MoveSource(move) ==
    IF IsSome(move.from) THEN SuffixInfo_to_path("count", Unwrap(move.from), FILE)
    ELSE FILE

\* fs::rename of one move on directory d.
Rename(d, move) ==
    {e \in d : e.name \notin {MoveSource(move), SuffixInfo_to_path("count", move.to, FILE)}}
    \cup {File(SuffixInfo_to_path("count", move.to, FILE))}

RECURSIVE RenameAll(_, _)
RenameAll(d, moves) ==
    IF moves = <<>> THEN d ELSE RenameAll(Rename(d, Head(moves)), Tail(moves))

\* The scanned files too_old at their recency rank (0: the most recent).
TooOldFiles(suffixes) ==
    {SuffixInfo_to_path("count", suffixes[i], FILE) :
        i \in {j \in 1..Len(suffixes) : AppendCount_too_old(suffixes[j].suffix, j - 1)}}

InitRotate ==
    /\ now = StartNow
    /\ ticks = 0
    /\ format = FormatDefault
    /\ file_limit = Unlimited
    /\ date_from = "Now"
    /\ max_files \in 0..MaxMaxFiles
    /\ newest = None
    /\ newest_fresh = FALSE
    /\ calls = 0
    /\ dir = {File(FILE)}
    /\ ret = NoCall

\* One rotation of the writer: scan, cascade the renames, start a fresh live
\* file, and delete the files too old among those now present (the scanned
\* set brought up to date with the renames).
Rotate ==
    /\ Idle
    /\ \E before \in ReadDir(dir) :
        LET suffixes == scan_suffixes("count", before)
            moves    == move_file_with_suffix(None, suffixes)
            moved    == RenameAll(dir, moves) \cup {File(FILE)}
            after    == CHOOSE entries \in ReadDir(moved) : TRUE
            deleted  == TooOldFiles(scan_suffixes("count", after))
        IN  /\ dir' = {e \in moved : e.name \notin deleted}
            /\ ret' = Call("rotate", <<suffixes, moves, dir>>, deleted)
    /\ UNCHANGED <<now, ticks, format, file_limit, date_from, max_files, newest,
                   newest_fresh, calls>>

\* The collaborator compresses a rotated file.
Compress(e) ==
    /\ Idle
    /\ e \in dir
    /\ e.name # FILE
    /\ ~IsSome(StripSuffix(e.name, GZ))
    /\ dir' = (dir \ {e}) \cup {File(e.name \o GZ)}
    /\ UNCHANGED <<now, ticks, format, file_limit, date_from, max_files, newest,
                   newest_fresh, calls, ret>>

\* AppendCount::rotate_file(basepath, newest_suffix, &suffix)
RotateFileCount(newest_suffix, suffix) ==
    /\ Idle
    /\ ret' = Call("count_rotate_file", <<newest_suffix, suffix>>,
                   AppendCount_rotate_file(newest_suffix, suffix))
    /\ Unchanged

OptionalNumbers == {None} \cup {Some(n) : n \in 0..MaxNumber}

NextRotate ==
    \/ Rotate
    \/ \E e \in dir : Compress(e)
    \/ \E newest_suffix \in OptionalNumbers, suffix \in OptionalNumbers :
          RotateFileCount(newest_suffix, suffix)
    \/ Return

SpecRotate == InitRotate /\ [][NextRotate]_vars

----------------------------------------------------------------------------
(* Claims checked under SpecRotate *)

\* The suffixes of the rotated files of directory d.
RotatedSuffixes(d) ==
    {n \in 0..(MaxMaxFiles + MaxNumber + 2) :
        \E e \in d : e.name \in {SuffixInfo_to_path("count", SuffixInfo(n, c), FILE) :
                                    c \in BOOLEAN}}

\* Replaying the moves on d, every move finds its target path free.
RECURSIVE TargetsFree(_, _)
TargetsFree(d, moves) ==
    \/ moves = <<>>
    \/ /\ \A e \in d : \A c \in BOOLEAN :
              e.name # SuffixInfo_to_path("count", SuffixInfo(Head(moves).to.suffix, c), FILE)
       /\ TargetsFree(Rename(d, Head(moves)), Tail(moves))

\* C3: AppendCount::rotate_file returns 1 for the live file and n + 1 for the
\* file at suffix n, whatever newest_suffix is; so a rotation over rotated
\* files 1..k moves each i to i + 1, the live file to 1, and no file onto a
\* suffix that is occupied when it is moved there.
C3_CountCascade ==
    /\ ret.op = "count_rotate_file" =>
          ret.result = Ok(IF IsSome(ret.args[2]) THEN Unwrap(ret.args[2]) + 1 ELSE 1)
    /\ ret.op = "rotate" =>
          LET suffixes == ret.args[1]
              moves    == ret.args[2]
              before   == ret.args[3]
              k        == Len(suffixes)
          IN  (\A i \in 1..k : suffixes[i].suffix = i) =>
                  /\ Len(moves) = k + 1
                  /\ \A i \in 1..k :
                        /\ moves[k + 1 - i].from = Some(suffixes[i])
                        /\ moves[k + 1 - i].to.suffix = i + 1
                  /\ moves[k + 1].from = None
                  /\ moves[k + 1].to.suffix = 1
                  /\ TargetsFree(before, moves)

C3_Witness ==
    /\ ret.op = "rotate"
    /\ Len(ret.args[1]) = 2
    /\ Len(ret.args[2]) = 3
    /\ ret.args[2][1].to.suffix = 3

\* C4: with max_files = m and a directory that held only the live file at
\* the start, after every completed rotation no rotated file has a suffix
\* greater than m, so at most m rotated files exist.
C4_AtMostMaxFiles ==
    /\ \A n \in RotatedSuffixes(dir) : n <= max_files
    /\ Cardinality({e \in dir : e.name # FILE}) <= max_files

C4_Witness ==
    /\ ret.op = "rotate"
    /\ max_files = 2
    /\ ret.result # {}
    /\ RotatedSuffixes(dir) = {1, 2}

====
